---- MODULE Spec2Model ----
(***************************************************************************)
(* A model of src/process_monitor.py (class AdvancedProcessMonitor).       *)
(*                                                                         *)
(* Spec        the monitoring loop run_monitor with check_memory_alerts,   *)
(*             check_cpu_alerts and the cooldown gate should_alert, one    *)
(*             step per call the loop makes.                               *)
(* SpecCooldown  the same loop over a long run and one process, every      *)
(*             reading of which breaches the memory threshold.             *)
(* SpecNotify  the notification dispatcher: the main thread calling        *)
(*             show_notification and the two consolidated notifications,   *)
(*             and the threading.Timer threads running                     *)
(*             notification_completed, one step per read or write of the   *)
(*             shared queue and flag.  Run-loop actions record their calls *)
(*             of the dispatcher in `dispatched`; the state of the         *)
(*             dispatcher is never read by the loop.                       *)
(*                                                                         *)
(* Numbers: percentages are integers (one unit = one percent step of the   *)
(* reading), wall-clock time is an integer number of seconds, a float      *)
(* quotient a / b is the fraction [n |-> a, d |-> b].  Python's None is    *)
(* the empty tuple and a present value v is <<v>>.  A Python str is the    *)
(* tuple of its characters.                                                *)
(***************************************************************************)
EXTENDS Integers, Sequences, FiniteSets, TLC

\* ------------------------------------------------------------------ bounds
MaxTime == 4
MaxCooldown == 3
MaxRequests == 3

\* ----------------------------------------------------------- Python values
None == <<>>

Some(v) == <<v>>

\* `x or 0` for a numeric x that may be None
OrZero(o) == IF o = None THEN 0 ELSE o[1]

\* the float a / b, kept exact
Frac(a, b) == [n |-> a, d |-> b]

\* x > t for a fraction x with positive denominator and an integer t
FracGt(x, t) == x.n > t * x.d

\* x > y for two fractions with positive denominators
FracGtFrac(x, y) == x.n * y.d > y.n * x.d

\* ------------------------------------------------------------------- text
Digit(k) == CASE k = 0 -> "0" [] k = 1 -> "1" [] k = 2 -> "2" [] k = 3 -> "3"
              [] k = 4 -> "4" [] k = 5 -> "5" [] k = 6 -> "6" [] k = 7 -> "7"
              [] k = 8 -> "8" [] k = 9 -> "9"

RECURSIVE NatStr(_)
NatStr(k) == IF k < 10 THEN <<Digit(k)>> ELSE NatStr(k \div 10) \o <<Digit(k % 10)>>

\* str(pid) as an f-string renders an int
IntStr(k) == IF k < 0 THEN <<"-">> \o NatStr(0 - k) ELSE NatStr(k)

LowerChar(c) == CASE c = "S" -> "s" [] c = "I" -> "i" [] c = "P" -> "p"
                  [] c = "C" -> "c" [] c = "U" -> "u" [] c = "A" -> "a"
                  [] c = "Y" -> "y" [] c = "T" -> "t" [] c = "E" -> "e"
                  [] c = "M" -> "m" [] c = "D" -> "d" [] c = "L" -> "l"
                  [] c = "R" -> "r" [] c = "O" -> "o"
                  [] OTHER -> c

\* a comparison of names that leaves the case as it is
Lower_same(s) == s

\* str.lower()
Lower(s) == [i \in 1..Len(s) |-> LowerChar(s[i])]

IdleName == <<"s","y","s","t","e","m"," ","i","d","l","e"," ","p","r","o","c","e","s","s">>

SystemMemoryKey == <<"s","y","s","t","e","m","_","m","e","m","o","r","y">>

\* f"{proc['pid']}_{proc['name']}"
MemKey(pid, name) == IntStr(pid) \o <<"_">> \o name

\* the CPU key built as the memory key is, without the metric in front
CpuKey_unprefixed(pid, name) == IntStr(pid) \o <<"_">> \o name

\* f"cpu_{proc['pid']}_{proc['name']}"
CpuKey(pid, name) == <<"c","p","u","_">> \o IntStr(pid) \o <<"_">> \o name


\* ------------------------------------------------------- the input domains
SystemIdleProcess == <<"S","y","s","t","e","m"," ","I","d","l","e"," ","P","r","o","c","e","s","s">>

Pids == {1, 2}

Names == {<<"a">>, SystemIdleProcess}

\* memory_percent and cpu_percent readings of one process (None: the attribute
\* could not be read; cpu_percent is on the multi-core scale)
Readings == {<<None, Some(2)>>, <<Some(2), None>>, <<Some(3), None>>, <<Some(3), Some(2)>>}

\* memory_info.rss readings, in bytes
InfoValues == {Some(3145728)}

\* psutil.virtual_memory().percent readings
SysMemValues == {85, 90}

\* proc.info of psutil.process_iter([...])
Sample(pid, name, reading, info) ==
    [pid |-> pid, name |-> name, memory_percent |-> reading[1],
     cpu_percent |-> reading[2], memory_info |-> info]

Samples == {Sample(p, n, r, i) : p \in Pids, n \in Names, r \in Readings, i \in InfoValues}

\* the snapshots over the samples S: process_iter yields every pid once
SnapshotsOf(S) == UNION {{s \in [1..k -> S] :
                            \A i, j \in 1..k : i # j => s[i].pid # s[j].pid} : k \in 0..Cardinality(Pids)}

Snapshots == SnapshotsOf(Samples)

\* one process that breaches the memory threshold at every reading
HotSamples == {s \in Samples : s.pid = 1 /\ s.name = <<"a">>
                                 /\ s.memory_percent = Some(3) /\ s.cpu_percent = None}

HotSnapshots == SnapshotsOf(HotSamples)

VARIABLES
    \* __init__ parameters
    alert_threshold, cpu_alert_threshold, check_interval, cooldown_period,
    \* psutil.cpu_count(logical=True)
    cpu_count,
    \* run_monitor(duration)
    duration,
    \* fields
    alerts_log, cpu_alerts_log, alerted_processes,
    \* the wall clock read by time.time() and datetime.now()
    now,
    \* run_monitor: position, and its locals
    pc, start_time, processes, alerts, cpu_alerts,
    \* history: every call of should_alert, with the key, the time it read and
    \* the value it returned
    gate_calls,
    \* history: the calls made to the notification dispatcher, in order
    dispatched,
    \* the two files generate_report wrote (None before it ran)
    saved,
    \* fields of the dispatcher
    notification_queue, is_showing_notification,
    \* the threads that run dispatcher code: 0 is the main thread, k > 0 the
    \* threading.Timer started for the request with title k
    thread,
    \* seconds until Timer k is due
    timer_left,
    \* the toasts handed to toaster.show_toast, in call order, each with the
    \* seconds of its display duration that are left
    displayed,
    \* the number of dispatcher calls the main thread has made
    calls_made,
    \* the cues played by winsound.Beep, in order, each with the number of the
    \* dispatcher call that played it
    beeps

config == <<alert_threshold, cpu_alert_threshold, check_interval, cooldown_period,
            cpu_count, duration>>

notify_vars == <<notification_queue, is_showing_notification, thread, timer_left,
                 displayed, calls_made, beeps>>

\* the state of the run loop, without the history of dispatcher calls
loop_state == <<alerts_log, cpu_alerts_log, alerted_processes, now, pc, start_time,
                processes, alerts, cpu_alerts, gate_calls, saved>>

loop_vars == <<loop_state, dispatched>>

vars == <<alert_threshold, cpu_alert_threshold, check_interval, cooldown_period,
          cpu_count, duration, alerts_log, cpu_alerts_log, alerted_processes, now,
          pc, start_time, processes, alerts, cpu_alerts, gate_calls, dispatched, saved,
          notification_queue, is_showing_notification, thread, timer_left, displayed,
          calls_made, beeps>>

\* the fixed critical threshold of the aggregate memory alert
CriticalMemory == 85

\* ---------------------------------------------------------- should_alert
\* should_alert with the cooldown window one second short
should_alert_short(m, key, t) ==
    IF key \in DOMAIN m /\ t - m[key] < cooldown_period - 1
    THEN [ok |-> FALSE, map |-> m]
    ELSE [ok |-> TRUE,
          map |-> [k \in DOMAIN m \cup {key} |-> IF k = key THEN t ELSE m[k]]]

\* should_alert recording the time of every call, suppressed ones included
should_alert_resets(m, key, t) ==
    [ok |-> ~(key \in DOMAIN m /\ t - m[key] < cooldown_period),
     map |-> [k \in DOMAIN m \cup {key} |-> IF k = key THEN t ELSE m[k]]]

\* should_alert suppressing at the end of the window as well
should_alert_strict(m, key, t) ==
    IF key \in DOMAIN m /\ t - m[key] <= cooldown_period
    THEN [ok |-> FALSE, map |-> m]
    ELSE [ok |-> TRUE,
          map |-> [k \in DOMAIN m \cup {key} |-> IF k = key THEN t ELSE m[k]]]

\* should_alert(process_key) at clock reading t on cooldown map m:
\* the returned flag and the map it leaves
should_alert(m, key, t) ==
    IF key \in DOMAIN m /\ t - m[key] < cooldown_period
    THEN [ok |-> FALSE, map |-> m]
    ELSE [ok |-> TRUE,
          map |-> [k \in DOMAIN m \cup {key} |-> IF k = key THEN t ELSE m[k]]]

\* ------------------------------------------------- normalize_cpu_usage
\* line 109 evaluates self.cpu_count > 0 for every raw value that is not None:
\* with cpu_count None (psutil could not determine it) the comparison raises
\* TypeError
normalize_raises(raw_cpu_percent) == raw_cpu_percent # None /\ cpu_count = None

\* the value normalize_cpu_usage returns when it does not raise
normalize_cpu_usage(raw_cpu_percent) ==
    IF raw_cpu_percent = None THEN Frac(0, 1)
    ELSE IF cpu_count[1] > 0 THEN Frac(raw_cpu_percent[1], cpu_count[1]) ELSE Frac(0, 1)

\* (proc['memory_info'].rss / 1024 / 1024) if proc['memory_info'] else 0
memory_mb(proc) ==
    IF proc.memory_info = None THEN Frac(0, 1) ELSE Frac(proc.memory_info[1], 1024 * 1024)

\* the alert_data dict of check_memory_alerts
MemoryAlert(proc, memory_usage) ==
    [timestamp |-> now, process_name |-> proc.name, pid |-> proc.pid,
     memory_usage_percent |-> memory_usage, memory_usage_mb |-> memory_mb(proc),
     message |-> <<"Process", proc.name, "PID", proc.pid, "using", memory_usage,
                   "% memory", memory_mb(proc), "MB">>]

\* the alert_data dict of check_cpu_alerts
CpuAlert(proc, cpu_usage) ==
    [timestamp |-> now, process_name |-> proc.name, pid |-> proc.pid,
     cpu_usage_percent |-> cpu_usage, memory_usage_mb |-> memory_mb(proc),
     message |-> <<"Process", proc.name, "PID", proc.pid, "using", cpu_usage, "% CPU">>]

\* what a pass over the snapshot carries: the cooldown map, the alerts list, the
\* history of should_alert calls and the history of dispatcher calls
Pass(m, a, h, d) == [map |-> m, alerts |-> a, gate_calls |-> h, dispatched |-> d]

\* the history after should_alert(key) returned r
Called(h, key, r) == Append(h, [key |-> key, time |-> now, ok |-> r.ok])

\* one call of should_alert(key) inside a pass st; rec is the alert_data built
\* when the call admits
Gate(st, key, rec) ==
    LET r == should_alert(st.map, key, now)
    IN  IF r.ok
        THEN Pass(r.map, Append(st.alerts, rec), Called(st.gate_calls, key, r),
                  st.dispatched)
        ELSE Pass(r.map, st.alerts, Called(st.gate_calls, key, r), st.dispatched)

\* the for loop alerting from the threshold on, not above it
RECURSIVE memory_loop_inclusive(_, _, _)
memory_loop_inclusive(procs, i, st) ==
    IF i > Len(procs) THEN st
    ELSE LET proc == procs[i]
             memory_usage == OrZero(proc.memory_percent)
         IN  IF memory_usage >= alert_threshold
             THEN memory_loop_inclusive(procs, i + 1,
                              Gate(st, MemKey(proc.pid, proc.name),
                                   MemoryAlert(proc, memory_usage)))
             ELSE memory_loop_inclusive(procs, i + 1, st)

\* check_memory_alerts, lines 127-148: the for loop from index i
RECURSIVE memory_loop(_, _, _)
memory_loop(procs, i, st) ==
    IF i > Len(procs) THEN st
    ELSE LET proc == procs[i]
             memory_usage == OrZero(proc.memory_percent)
         IN  IF memory_usage > alert_threshold
             THEN memory_loop(procs, i + 1,
                              Gate(st, MemKey(proc.pid, proc.name),
                                   MemoryAlert(proc, memory_usage)))
             ELSE memory_loop(procs, i + 1, st)

\* check_memory_alerts, lines 150-152: the consolidated notification
memory_notify(st) ==
    IF st.alerts # <<>>
    THEN Pass(st.map, st.alerts, st.gate_calls,
              Append(st.dispatched, [op |-> "show_consolidated_notification",
                                     alerts |-> st.alerts]))
    ELSE st

\* check_memory_alerts, lines 154-159: the aggregate memory alert
system_alert(st, total_memory) ==
    LET r == should_alert(st.map, SystemMemoryKey, now)
    IN  IF total_memory > CriticalMemory
        THEN IF r.ok
             THEN Pass(r.map, st.alerts, Called(st.gate_calls, SystemMemoryKey, r),
                       Append(st.dispatched, [op |-> "show_notification",
                                              title |-> "System Critical"]))
             ELSE Pass(r.map, st.alerts, Called(st.gate_calls, SystemMemoryKey, r),
                       st.dispatched)
        ELSE st

\* check_memory_alerts(processes) with total_memory.percent read as total_memory
check_memory_alerts(procs, total_memory) ==
    system_alert(memory_notify(memory_loop(procs, 1,
        Pass(alerted_processes, <<>>, gate_calls, dispatched))), total_memory)

\* check_cpu_alerts, lines 168-190: the for loop from index i
RECURSIVE cpu_loop(_, _, _)
cpu_loop(procs, i, st) ==
    IF i > Len(procs) THEN st
    ELSE LET proc == procs[i]
             cpu_usage == normalize_cpu_usage(Some(OrZero(proc.cpu_percent)))
         IN  IF FracGt(cpu_usage, cpu_alert_threshold) /\ Lower(proc.name) # IdleName
             THEN cpu_loop(procs, i + 1,
                           Gate(st, CpuKey(proc.pid, proc.name), CpuAlert(proc, cpu_usage)))
             ELSE cpu_loop(procs, i + 1, st)

\* check_cpu_alerts, lines 192-194: the consolidated notification
cpu_notify(st) ==
    IF st.alerts # <<>>
    THEN Pass(st.map, st.alerts, st.gate_calls,
              Append(st.dispatched, [op |-> "show_consolidated_cpu_notification",
                                     alerts |-> st.alerts]))
    ELSE st

\* check_cpu_alerts(processes)
check_cpu_alerts(procs) ==
    cpu_notify(cpu_loop(procs, 1, Pass(alerted_processes, <<>>, gate_calls, dispatched)))

\* ---------------------------------------------------------- the dispatcher
Threads == 0..MaxRequests

\* the default display duration of show_notification(title, message, duration=5)
DefaultDuration == 5

\* the display duration of a consolidated notification
ConsolidatedDuration == 7

\* lines 19-20, with no thread in dispatcher code and no Timer started
InitDispatcher ==
    /\ notification_queue = <<>>
    /\ is_showing_notification = FALSE
    /\ thread = [t \in Threads |-> [pc |-> IF t = 0 THEN "idle" ELSE "none", item |-> None]]
    /\ timer_left = [t \in 1..MaxRequests |-> 0]
    /\ displayed = <<>>
    /\ calls_made = 0
    /\ beeps = <<>>

\* where thread t goes when process_notification_queue returns
Returned(t) == IF t = 0 THEN "idle" ELSE "dead"

\* thread t at position p
At(t, p) == [thread EXCEPT ![t].pc = p]

\* toaster.show_toast(title, message, duration=..., threaded=True)
show_toast(toast) == Append(displayed, [toast |-> toast, left |-> toast.duration])

\* winsound.Beep(frequency, ms) played by dispatcher call number call
Beep(frequency, ms, call) ==
    Append(beeps, [frequency |-> frequency, ms |-> ms, call |-> call])

\* a consolidated notification playing its cue before it looks at the list
consolidated_cue_first(list, frequency, ms, call) == Beep(frequency, ms, call)

\* lines 65-69 and 229-233: a consolidated notification returns on an empty
\* list, and plays its cue otherwise
consolidated_cue(list, frequency, ms, call) ==
    IF list = <<>> THEN beeps ELSE Beep(frequency, ms, call)

\* show_notification, lines 27-31: the cue, the append, the call of
\* process_notification_queue.  The title is the number of the call.
ShowNotification ==
    /\ thread[0].pc = "idle"
    /\ calls_made < MaxRequests
    /\ calls_made' = calls_made + 1
    /\ beeps' = Beep(1000, 300, calls_made + 1)
    /\ notification_queue' = Append(notification_queue,
                                    [title |-> calls_made + 1, duration |-> DefaultDuration])
    /\ thread' = At(0, "check_flag")
    /\ dispatched' = Append(dispatched, [op |-> "show_notification",
                                         title |-> calls_made + 1])
    /\ UNCHANGED <<config, loop_state, is_showing_notification, timer_left, displayed>>

\* line 38, first operand: self.is_showing_notification
CheckFlag(t) ==
    /\ thread[t].pc = "check_flag"
    /\ thread' = At(t, IF is_showing_notification THEN Returned(t) ELSE "check_queue")
    /\ UNCHANGED <<config, loop_vars, beeps, notification_queue, is_showing_notification, timer_left, displayed,
                   calls_made>>

\* line 38, second operand: not self.notification_queue
CheckQueue(t) ==
    /\ thread[t].pc = "check_queue"
    /\ thread' = At(t, IF notification_queue = <<>> THEN Returned(t) ELSE "set_flag")
    /\ UNCHANGED <<config, loop_vars, beeps, notification_queue, is_showing_notification, timer_left, displayed,
                   calls_made>>

\* line 41
SetFlag(t) ==
    /\ thread[t].pc = "set_flag"
    /\ is_showing_notification' = TRUE
    /\ thread' = At(t, "pop")
    /\ UNCHANGED <<config, loop_vars, beeps, notification_queue, timer_left, displayed, calls_made>>

\* line 42: pop(0); on an empty list it raises IndexError
Pop(t) ==
    /\ thread[t].pc = "pop"
    /\ \/ /\ notification_queue # <<>>
          /\ thread' = [thread EXCEPT ![t] = [pc |-> "show",
                                              item |-> Some(Head(notification_queue))]]
          /\ notification_queue' = Tail(notification_queue)
       \/ /\ notification_queue = <<>>
          /\ thread' = At(t, "raised")
          /\ notification_queue' = notification_queue
    /\ UNCHANGED <<config, loop_vars, beeps, is_showing_notification, timer_left, displayed, calls_made>>

\* lines 33-34: the handler of show_notification catches the exception raised
\* under it in the main thread (in a Timer thread nothing catches it and the
\* thread ends)
Caught ==
    /\ thread[0].pc = "raised"
    /\ thread' = At(0, "idle")
    /\ UNCHANGED <<config, loop_vars, beeps, notification_queue, is_showing_notification,
                   timer_left, displayed, calls_made>>

\* lines 44-56: the toast is shown and Timer(duration + 1, notification_completed)
\* is started
Show(t) ==
    /\ thread[t].pc = "show"
    /\ LET item == thread[t].item[1]
       IN  /\ displayed' = show_toast([title |-> item.title, duration |-> item.duration,
                                        path |-> "queue"])
           /\ timer_left' = [timer_left EXCEPT ![item.title] = item.duration + 1]
           /\ thread' = [thread EXCEPT ![t] = [pc |-> Returned(t), item |-> None],
                                       ![item.title] = [pc |-> "timer", item |-> None]]
    /\ UNCHANGED <<config, loop_vars, beeps, notification_queue, is_showing_notification, calls_made>>

\* lines 44-56 with show_toast raising: the handler of line 52 prints the
\* error, nothing is displayed, and the Timer of line 56 is started all the same
ShowFails(t) ==
    /\ thread[t].pc = "show"
    /\ LET item == thread[t].item[1]
       IN  /\ timer_left' = [timer_left EXCEPT ![item.title] = item.duration + 1]
           /\ thread' = [thread EXCEPT ![t] = [pc |-> Returned(t), item |-> None],
                                       ![item.title] = [pc |-> "timer", item |-> None]]
    /\ UNCHANGED <<config, loop_vars, beeps, notification_queue, is_showing_notification,
                   displayed, calls_made>>

\* the Timer of request k is due and its thread starts notification_completed
TimerFire(k) ==
    /\ thread[k].pc = "timer"
    /\ timer_left[k] = 0
    /\ thread' = At(k, "completed")
    /\ UNCHANGED <<config, loop_vars, beeps, notification_queue, is_showing_notification, timer_left, displayed,
                   calls_made>>

\* notification_completed, lines 60-61
Completed(k) ==
    /\ thread[k].pc = "completed"
    /\ is_showing_notification' = FALSE
    /\ thread' = At(k, "check_flag")
    /\ UNCHANGED <<config, loop_vars, beeps, notification_queue, timer_left, displayed, calls_made>>

\* one second passes: on the display surface and for the pending Timers
Second ==
    /\ \/ \E i \in DOMAIN displayed : displayed[i].left > 0
       \/ \E k \in 1..MaxRequests : thread[k].pc = "timer" /\ timer_left[k] > 0
    /\ displayed' = [i \in DOMAIN displayed |->
                        [displayed[i] EXCEPT !.left = IF @ > 0 THEN @ - 1 ELSE 0]]
    /\ timer_left' = [k \in 1..MaxRequests |-> IF timer_left[k] > 0 THEN timer_left[k] - 1
                                                ELSE 0]
    /\ UNCHANGED <<config, loop_vars, beeps, notification_queue, is_showing_notification, thread, calls_made>>

\* the most entries a consolidated notification lists
TopShown == 3

\* show_consolidated_notification marking the truncation from three records on
consolidated_toast_more(list) ==
    IF list = <<>> THEN None
    ELSE IF Len(list) = 1
    THEN Some([title |-> <<"High Memory Usage!">>,
               message |-> <<[kind |-> "detail", name |-> list[1].process_name,
                              value |-> list[1].memory_usage_percent,
                              mb |-> list[1].memory_usage_mb]>>,
               duration |-> ConsolidatedDuration, path |-> "memory"])
    ELSE Some([title |-> <<Len(list), "Processes High Memory!">>,
               message |->
                   <<[kind |-> "header", text |-> "Top offenders:"]>>
                   \o [i \in 1..(IF Len(list) < TopShown THEN Len(list) ELSE TopShown) |->
                         [kind |-> "entry", name |-> list[i].process_name,
                          value |-> list[i].memory_usage_percent]]
                   \o (IF Len(list) >= TopShown
                       THEN <<[kind |-> "more", count |-> Len(list) - TopShown]>>
                       ELSE <<>>),
               duration |-> ConsolidatedDuration, path |-> "memory"])

\* show_consolidated_notification(alerts), lines 65-83: the toast it builds on list,
\* None for an empty list
consolidated_toast(list) ==
    IF list = <<>> THEN None
    ELSE IF Len(list) = 1
    THEN Some([title |-> <<"High Memory Usage!">>,
               message |-> <<[kind |-> "detail", name |-> list[1].process_name,
                              value |-> list[1].memory_usage_percent,
                              mb |-> list[1].memory_usage_mb]>>,
               duration |-> ConsolidatedDuration, path |-> "memory"])
    ELSE Some([title |-> <<Len(list), "Processes High Memory!">>,
               message |->
                   <<[kind |-> "header", text |-> "Top offenders:"]>>
                   \o [i \in 1..(IF Len(list) < TopShown THEN Len(list) ELSE TopShown) |->
                         [kind |-> "entry", name |-> list[i].process_name,
                          value |-> list[i].memory_usage_percent]]
                   \o (IF Len(list) > TopShown
                       THEN <<[kind |-> "more", count |-> Len(list) - TopShown]>>
                       ELSE <<>>),
               duration |-> ConsolidatedDuration, path |-> "memory"])

\* show_consolidated_cpu_notification(alerts), lines 229-247: the toast it builds
consolidated_cpu_toast(list) ==
    IF list = <<>> THEN None
    ELSE IF Len(list) = 1
    THEN Some([title |-> <<"High CPU Usage!">>,
               message |-> <<[kind |-> "detail", name |-> list[1].process_name,
                              value |-> list[1].cpu_usage_percent]>>,
               duration |-> ConsolidatedDuration, path |-> "cpu"])
    ELSE Some([title |-> <<Len(list), "Processes High CPU!">>,
               message |->
                   <<[kind |-> "header", text |-> "Top CPU users:"]>>
                   \o [i \in 1..(IF Len(list) < TopShown THEN Len(list) ELSE TopShown) |->
                         [kind |-> "entry", name |-> list[i].process_name,
                          value |-> list[i].cpu_usage_percent]]
                   \o (IF Len(list) > TopShown
                       THEN <<[kind |-> "more", count |-> Len(list) - TopShown]>>
                       ELSE <<>>),
               duration |-> ConsolidatedDuration, path |-> "cpu"])

\* show_consolidated_notification called by the main thread on a list of B, as
\* one of at most n dispatcher calls: lines 63-93
ShowConsolidatedNotification(B, n) ==
    /\ thread[0].pc = "idle"
    /\ calls_made < n
    /\ calls_made' = calls_made + 1
    /\ \E a \in B :
          /\ dispatched' = Append(dispatched, [op |-> "show_consolidated_notification",
                                               alerts |-> a])
          /\ beeps' = consolidated_cue(a, 1000, 300, calls_made + 1)
          /\ displayed' = IF consolidated_toast(a) = None THEN displayed
                          ELSE show_toast(consolidated_toast(a)[1])
    /\ UNCHANGED <<config, loop_state, notification_queue, is_showing_notification,
                   thread, timer_left>>

\* show_consolidated_cpu_notification called by the main thread: lines 227-257
ShowConsolidatedCpuNotification(B, n) ==
    /\ thread[0].pc = "idle"
    /\ calls_made < n
    /\ calls_made' = calls_made + 1
    /\ \E a \in B :
          /\ dispatched' = Append(dispatched, [op |-> "show_consolidated_cpu_notification",
                                               alerts |-> a])
          /\ beeps' = consolidated_cue(a, 800, 250, calls_made + 1)
          /\ displayed' = IF consolidated_cpu_toast(a) = None THEN displayed
                          ELSE show_toast(consolidated_cpu_toast(a)[1])
    /\ UNCHANGED <<config, loop_state, notification_queue, is_showing_notification,
                   thread, timer_left>>

\* -------------------------------------------------------------- run_monitor
\* the state after __init__ and the call of run_monitor, for cooldown periods C,
\* core counts N and run durations D
InitOf(C, N, D) ==
    /\ alert_threshold \in {2}
    /\ cpu_alert_threshold \in {1}
    /\ check_interval \in {1}
    /\ cooldown_period \in C
    /\ cpu_count \in N
    /\ duration \in D
    /\ alerts_log = <<>>
    /\ cpu_alerts_log = <<>>
    /\ alerted_processes = <<>>
    /\ now = 0
    /\ pc = "start"
    /\ start_time = 0
    /\ processes = <<>>
    /\ alerts = <<>>
    /\ cpu_alerts = <<>>
    /\ gate_calls = <<>>
    /\ dispatched = <<>>
    /\ saved = None
    /\ InitDispatcher

\* lines 283-288: the startup notification, then start_time = time.time()
Start ==
    /\ pc = "start"
    /\ dispatched' = Append(dispatched, [op |-> "show_notification",
                                         title |-> "Process Monitor Started"])
    /\ start_time' = now
    /\ pc' = "while"
    /\ UNCHANGED <<notify_vars, config, alerts_log, cpu_alerts_log, alerted_processes, now, processes,
                   alerts, cpu_alerts, gate_calls, saved>>

\* the loop test letting a cycle start when the duration has just been reached
LoopTest_inclusive(S) ==
    /\ pc = "while"
    /\ \/ /\ now - start_time <= duration
          /\ \E s \in S :
                /\ processes' = s
                /\ pc' = IF s # <<>> /\ normalize_raises(Some(OrZero(s[1].cpu_percent)))
                         THEN "crashed" ELSE "mem"
       \/ /\ ~(now - start_time <= duration)
          /\ processes' = processes
          /\ pc' = "report"
    /\ UNCHANGED <<notify_vars, config, alerts_log, cpu_alerts_log, alerted_processes, now, start_time,
                   alerts, cpu_alerts, gate_calls, dispatched, saved>>

\* lines 291-294: the loop test; get_process_info (a snapshot of S) and the two
\* console tables.  display_processes normalizes the CPU reading of every row
\* (line 270): when that raises, the TypeError leaves run_monitor, whose try
\* block handles KeyboardInterrupt only.
LoopTest(S) ==
    /\ pc = "while"
    /\ \/ /\ now - start_time < duration
          /\ \E s \in S :
                /\ processes' = s
                /\ pc' = IF s # <<>> /\ normalize_raises(Some(OrZero(s[1].cpu_percent)))
                         THEN "crashed" ELSE "mem"
       \/ /\ ~(now - start_time < duration)
          /\ processes' = processes
          /\ pc' = "report"
    /\ UNCHANGED <<notify_vars, config, alerts_log, cpu_alerts_log, alerted_processes, now, start_time,
                   alerts, cpu_alerts, gate_calls, dispatched, saved>>

\* line 295: alerts = self.check_memory_alerts(processes)
CheckMemory ==
    /\ pc = "mem"
    /\ \E total_memory \in SysMemValues :
          LET st == check_memory_alerts(processes, total_memory)
          IN  /\ alerted_processes' = st.map
              /\ alerts' = st.alerts
              /\ gate_calls' = st.gate_calls
              /\ dispatched' = st.dispatched
    /\ pc' = "cpu"
    /\ UNCHANGED <<notify_vars, config, alerts_log, cpu_alerts_log, now, start_time, processes,
                   cpu_alerts, saved>>

\* line 296: cpu_alerts = self.check_cpu_alerts(processes)
CheckCpu ==
    /\ pc = "cpu"
    /\ LET st == check_cpu_alerts(processes)
       IN  /\ alerted_processes' = st.map
           /\ cpu_alerts' = st.alerts
           /\ gate_calls' = st.gate_calls
           /\ dispatched' = st.dispatched
    /\ pc' = "extend"
    /\ UNCHANGED <<notify_vars, config, alerts_log, cpu_alerts_log, now, start_time, processes,
                   alerts, saved>>

\* lines 297-303: both logs extended, the summary line printed.  The locals of
\* the cycle are dead from here on (the next iteration assigns them before any
\* read) and are reset.
Extend ==
    /\ pc = "extend"
    /\ alerts_log' = alerts_log \o alerts
    /\ cpu_alerts_log' = cpu_alerts_log \o cpu_alerts
    /\ processes' = <<>>
    /\ alerts' = <<>>
    /\ cpu_alerts' = <<>>
    /\ pc' = "sleep"
    /\ UNCHANGED <<notify_vars, config, alerted_processes, now, start_time, gate_calls, dispatched, saved>>

\* line 305: time.sleep(self.check_interval)
Sleep ==
    /\ pc = "sleep"
    /\ now' = now + check_interval
    /\ pc' = "while"
    /\ UNCHANGED <<notify_vars, config, alerts_log, cpu_alerts_log, alerted_processes, start_time,
                   processes, alerts, cpu_alerts, gate_calls, dispatched, saved>>

\* the positions inside the try block of lines 290-305
InTry == {"while", "mem", "cpu", "extend", "sleep"}

\* KeyboardInterrupt handled inside the loop body: the notification is
\* requested and the loop goes on
Interrupt_resumes ==
    /\ pc \in InTry
    /\ dispatched' = Append(dispatched, [op |-> "show_notification",
                                         title |-> "Process Monitor"])
    /\ pc' = "while"
    /\ UNCHANGED <<notify_vars, config, alerts_log, cpu_alerts_log, alerted_processes, now, start_time,
                   processes, alerts, cpu_alerts, gate_calls, saved>>

\* lines 307-309: KeyboardInterrupt raised inside the try block and handled
Interrupt ==
    /\ pc \in InTry
    /\ dispatched' = Append(dispatched, [op |-> "show_notification",
                                         title |-> "Process Monitor"])
    /\ pc' = "report"
    /\ UNCHANGED <<notify_vars, config, alerts_log, cpu_alerts_log, alerted_processes, now, start_time,
                   processes, alerts, cpu_alerts, gate_calls, saved>>

\* generate_report, lines 313-337
generate_report ==
    /\ pc = "report"
    /\ saved' = Some([memory_alerts |-> alerts_log, cpu_alerts |-> cpu_alerts_log])
    /\ pc' = "done"
    /\ UNCHANGED <<notify_vars, config, alerts_log, cpu_alerts_log, alerted_processes, now, start_time,
                   processes, alerts, cpu_alerts, gate_calls, dispatched>>

\* the wall clock advances while the loop is in a blocking call: the sleep of
\* line 305 taking longer, and the reads of psutil between the two passes
Tick ==
    /\ pc \in {"sleep", "cpu"}
    /\ now < MaxTime
    /\ now' = now + 1
    /\ UNCHANGED <<notify_vars, config, alerts_log, cpu_alerts_log, alerted_processes, pc, start_time,
                   processes, alerts, cpu_alerts, gate_calls, dispatched, saved>>

Init == InitOf({2}, {Some(0), Some(1), Some(2)}, {2})

Next ==
    \/ Start \/ LoopTest(Snapshots) \/ CheckMemory \/ CheckCpu
    \/ Extend \/ Sleep \/ Interrupt \/ generate_report \/ Tick

Spec == Init /\ [][Next]_vars

\* the cooldown gate over a long run: every reading of the process breaches
InitCooldown == InitOf(0..MaxCooldown, {Some(1)}, {MaxTime})

NextCooldown ==
    \/ Start \/ LoopTest(HotSnapshots) \/ CheckMemory \/ CheckCpu
    \/ Extend \/ Sleep \/ Interrupt \/ generate_report \/ Tick

SpecCooldown == InitCooldown /\ [][NextCooldown]_vars

\* the dispatcher on its own: the loop is at rest
InitNotify ==
    /\ alert_threshold = 2
    /\ cpu_alert_threshold = 1
    /\ check_interval = 1
    /\ cooldown_period = 2
    /\ cpu_count = Some(1)
    /\ duration = 0
    /\ alerts_log = <<>>
    /\ cpu_alerts_log = <<>>
    /\ alerted_processes = <<>>
    /\ now = 0
    /\ pc = "dispatch"
    /\ start_time = 0
    /\ processes = <<>>
    /\ alerts = <<>>
    /\ cpu_alerts = <<>>
    /\ gate_calls = <<>>
    /\ dispatched = <<>>
    /\ saved = None
    /\ InitDispatcher

\* the lists the loop hands to the consolidated notifications here
OneAlert == MemoryAlert(Sample(1, <<"a">>, <<Some(3), None>>, Some(3145728)), 3)

OneCpuAlert == CpuAlert(Sample(1, <<"a">>, <<None, Some(2)>>, Some(3145728)), Frac(2, 1))

NextNotify ==
    \/ ShowNotification
    \/ ShowConsolidatedNotification({<<>>, <<OneAlert>>}, MaxRequests)
    \/ ShowConsolidatedCpuNotification({<<>>, <<OneCpuAlert>>}, MaxRequests)
    \/ \E t \in Threads : CheckFlag(t) \/ CheckQueue(t) \/ SetFlag(t) \/ Pop(t) \/ Show(t)
    \/ Caught
    \/ \E k \in 1..MaxRequests : TimerFire(k) \/ Completed(k)
    \/ Second

SpecNotify == InitNotify /\ [][NextNotify]_vars

\* every thread that can take a step of dispatcher code takes it, a due Timer
\* starts its thread, and time passes; the main thread need not call again
FairNotify ==
    /\ \A t \in Threads :
          /\ WF_vars(CheckFlag(t)) /\ WF_vars(CheckQueue(t)) /\ WF_vars(SetFlag(t))
          /\ WF_vars(Pop(t)) /\ WF_vars(Show(t))
    /\ WF_vars(Caught)
    /\ \A k \in 1..MaxRequests : WF_vars(TimerFire(k)) /\ WF_vars(Completed(k))
    /\ WF_vars(Second)

FairSpecNotify == SpecNotify /\ FairNotify

\* the dispatcher with displays that may fail
NextNotifyFaulty ==
    \/ ShowNotification
    \/ ShowConsolidatedNotification({<<>>, <<OneAlert>>}, MaxRequests)
    \/ ShowConsolidatedCpuNotification({<<>>, <<OneCpuAlert>>}, MaxRequests)
    \/ \E t \in Threads : CheckFlag(t) \/ CheckQueue(t) \/ SetFlag(t) \/ Pop(t) \/ Show(t)
    \/ \E t \in Threads : ShowFails(t)
    \/ Caught
    \/ \E k \in 1..MaxRequests : TimerFire(k) \/ Completed(k)
    \/ Second

SpecNotifyFaulty == InitNotify /\ [][NextNotifyFaulty]_vars

\* a thread about to call show_toast goes on, whether the call returns or
\* raises: FairNotify keeps it from resting there
FairSpecNotifyFaulty == SpecNotifyFaulty /\ FairNotify

\* ------------------------------------------- the consolidated notifications
\* the longest alerts list handed to a consolidated notification
MaxBatch == 4

\* the readings of the records of a list, all above both thresholds
BatchValues == {3, 4, 5}

\* the process behind record i of a list
BatchName(i) == <<"a">> \o IntStr(i)

\* the alerts lists check_memory_alerts can build: record i is of pid i
MemoryBatches ==
    {[i \in DOMAIN f |->
         MemoryAlert(Sample(i, BatchName(i), <<Some(f[i]), None>>, Some(3145728)), f[i])] :
     f \in UNION {[1..n -> BatchValues] : n \in 0..MaxBatch}}

\* the cpu_alerts lists check_cpu_alerts can build
CpuBatches ==
    {[i \in DOMAIN f |->
         CpuAlert(Sample(i, BatchName(i), <<None, Some(f[i])>>, Some(3145728)),
                  normalize_cpu_usage(Some(f[i])))] :
     f \in UNION {[1..n -> BatchValues] : n \in 0..MaxBatch}}

\* the loop holds the list of one family and hands it to its notification
InitConsol ==
    /\ alert_threshold = 2
    /\ cpu_alert_threshold = 1
    /\ check_interval = 1
    /\ cooldown_period = 2
    /\ cpu_count = Some(1)
    /\ duration = 0
    /\ alerts_log = <<>>
    /\ cpu_alerts_log = <<>>
    /\ alerted_processes = <<>>
    /\ now = 0
    /\ pc = "dispatch"
    /\ start_time = 0
    /\ processes = <<>>
    /\ \/ alerts \in MemoryBatches /\ cpu_alerts = <<>>
       \/ alerts = <<>> /\ cpu_alerts \in CpuBatches
    /\ gate_calls = <<>>
    /\ dispatched = <<>>
    /\ saved = None
    /\ InitDispatcher

NextConsol ==
    \/ ShowConsolidatedNotification({alerts}, MaxRequests)
    \/ ShowConsolidatedCpuNotification({cpu_alerts}, MaxRequests)

SpecConsol == InitConsol /\ [][NextConsol]_vars

\* ------------------------------------------------------------ the alert keys
\* the most keys the cooldown map holds here
MaxKeys == 2

KeyPids == {1, 11}

\* a plain name, and one that reads like a pid and a separator
KeyNames == {<<"a">>, <<"1", "_", "a">>}

\* what an alert is about: a metric of a process, or the aggregate memory
Subjects ==
    [metric : {"memory", "cpu"}, pid : {Some(p) : p \in KeyPids},
     name : {Some(n) : n \in KeyNames}]
    \cup {[metric |-> "system", pid |-> None, name |-> None]}

\* the process_key built for subject x: lines 130, 172 and 156
KeyOf(x) ==
    CASE x.metric = "memory" -> MemKey(x.pid[1], x.name[1])
      [] x.metric = "cpu" -> CpuKey(x.pid[1], x.name[1])
      [] OTHER -> SystemMemoryKey

\* lines 130-131, 172-173 and 156: the key of subject x is built and
\* should_alert is called on it
KeyedGate(x) ==
    LET r == should_alert(alerted_processes, KeyOf(x), now)
    IN  /\ Cardinality(DOMAIN r.map) <= MaxKeys
        /\ alerted_processes' = r.map
        /\ UNCHANGED <<notify_vars, config, alerts_log, cpu_alerts_log, now, pc, start_time,
                       processes, alerts, cpu_alerts, gate_calls, dispatched, saved>>

\* the loop between its two passes, where the clock advances
InitKey ==
    /\ alert_threshold = 2
    /\ cpu_alert_threshold = 1
    /\ check_interval = 1
    /\ cooldown_period = 2
    /\ cpu_count = Some(1)
    /\ duration = MaxTime
    /\ alerts_log = <<>>
    /\ cpu_alerts_log = <<>>
    /\ alerted_processes = <<>>
    /\ now = 0
    /\ pc = "cpu"
    /\ start_time = 0
    /\ processes = <<>>
    /\ alerts = <<>>
    /\ cpu_alerts = <<>>
    /\ gate_calls = <<>>
    /\ dispatched = <<>>
    /\ saved = None
    /\ InitDispatcher

NextKey == (\E x \in Subjects : KeyedGate(x)) \/ Tick

SpecKey == InitKey /\ [][NextKey]_vars

\* ------------------------------------------------------- failing reads
\* psutil.virtual_memory() raises, on line 124 at the start of
\* check_memory_alerts or on line 300 after both logs were extended: the error
\* is no KeyboardInterrupt, so it leaves the try block of lines 290-309
\* unhandled and run_monitor ends before line 311
ReadFailure ==
    /\ \/ /\ pc = "mem"
          /\ UNCHANGED <<alerts_log, cpu_alerts_log>>
       \/ /\ pc = "extend"
          /\ alerts_log' = alerts_log \o alerts
          /\ cpu_alerts_log' = cpu_alerts_log \o cpu_alerts
    /\ pc' = "crashed"
    /\ UNCHANGED <<notify_vars, config, alerted_processes, now, start_time, processes,
                   alerts, cpu_alerts, gate_calls, dispatched, saved>>

NextFaulty ==
    \/ Start \/ LoopTest(HotSnapshots) \/ CheckMemory \/ CheckCpu
    \/ Extend \/ Sleep \/ Interrupt \/ generate_report \/ Tick
    \/ ReadFailure

\* the run loop with reads of the aggregate memory figure that may fail
SpecFaulty == InitCooldown /\ [][NextFaulty]_vars

\* ---------------------------------------------------- the core count
\* what psutil.cpu_count(logical=True) may hand to __init__: a count, or None
\* when it cannot be determined; zero and negative counts stand for a platform
\* reporting nonsense
CoreCounts == {None, Some(0 - 1), Some(0), Some(1), Some(2)}

InitCores == InitOf({2}, CoreCounts, {2})

\* the run loop on every core count
SpecCores == InitCores /\ [][NextCooldown]_vars

\* ------------------------------------------------- a run left to itself
\* every configured duration up to MaxTime
InitDuration == InitOf({2}, {Some(1)}, 0..MaxTime)

\* the run loop with no KeyboardInterrupt and no failing call
NextDuration ==
    \/ Start \/ LoopTest(HotSnapshots) \/ CheckMemory \/ CheckCpu
    \/ Extend \/ Sleep \/ generate_report \/ Tick

SpecDuration == InitDuration /\ [][NextDuration]_vars

\* every statement of run_monitor returns and time.sleep wakes up: the main
\* thread always takes its next step
FairDuration ==
    WF_vars(Start \/ LoopTest(HotSnapshots) \/ CheckMemory \/ CheckCpu
            \/ Extend \/ Sleep \/ generate_report)

FairSpecDuration == SpecDuration /\ FairDuration

\* -------------------------------------------------- the idle process
\* the name of the idle process in three spellings
IdleNames ==
    {SystemIdleProcess, IdleName,
     <<"S","Y","S","T","E","M"," ","I","D","L","E"," ","P","R","O","C","E","S","S">>}

\* the idle process with CPU readings above the threshold, with and without
\* a memory reading above its threshold, and a busy process next to it
IdleSamples ==
    {Sample(1, n, r, i) : n \in IdleNames, r \in {<<None, Some(2)>>, <<Some(3), Some(3)>>},
                          i \in InfoValues}
    \cup {Sample(2, <<"a">>, <<None, Some(2)>>, i) : i \in InfoValues}

IdleSnapshots == SnapshotsOf(IdleSamples)

NextIdle ==
    \/ Start \/ LoopTest(IdleSnapshots) \/ CheckMemory \/ CheckCpu
    \/ Extend \/ Sleep \/ Interrupt \/ generate_report \/ Tick

\* the run loop on snapshots that hold the idle process
SpecIdle == Init /\ [][NextIdle]_vars

\* ------------------------------------------------ the passes on their own
\* processes of one name with every pair of readings
PlainSamples ==
    {Sample(p, <<"a">>, r, i) : p \in Pids, r \in Readings, i \in InfoValues}

PlainSnapshots == SnapshotsOf(PlainSamples)

InitAlerts == InitOf({2}, {Some(1)}, {2})

NextAlerts ==
    \/ Start \/ LoopTest(PlainSnapshots) \/ CheckMemory \/ CheckCpu
    \/ Extend \/ Sleep \/ Interrupt \/ generate_report \/ Tick

\* the run loop on snapshots with readings absent, at and above the thresholds
SpecAlerts == InitAlerts /\ [][NextAlerts]_vars

\* ------------------------------------------------------------------ claims
\* the memory alert records emitted so far: the log and the running cycle's list
MemoryRecords == alerts_log \o alerts

\* the calls of should_alert(key) that returned True, as indices of gate_calls
Admissions(key) == {i \in 1..Len(gate_calls) : gate_calls[i].key = key /\ gate_calls[i].ok}

HotKey == MemKey(1, <<"a">>)

\* C1: with a cooldown period C > 0, two admissions of the same key by
\* should_alert are at least C apart, and so are the timestamps of two memory
\* alert records of the same process: a breach inside the window, in a later
\* cycle or in the same pass, yields no record.
C1_CooldownSafety ==
    cooldown_period > 0 =>
        /\ \A i, j \in 1..Len(gate_calls) :
              (i < j /\ gate_calls[i].ok /\ gate_calls[j].ok
                     /\ gate_calls[i].key = gate_calls[j].key)
              => gate_calls[j].time - gate_calls[i].time >= cooldown_period
        /\ \A i, j \in 1..Len(MemoryRecords) :
              (i < j /\ MemoryRecords[i].pid = MemoryRecords[j].pid
                     /\ MemoryRecords[i].process_name = MemoryRecords[j].process_name)
              => MemoryRecords[j].timestamp - MemoryRecords[i].timestamp >= cooldown_period

\* a pass has just met a breach of the process inside its cooldown window and
\* emitted no record, after an earlier cycle admitted it
C1_Witness ==
    /\ pc = "cpu"
    /\ cooldown_period > 1
    /\ Len(processes) = 1
    /\ alerts = <<>>
    /\ Len(alerts_log) = 1
    /\ HotKey \in DOMAIN alerted_processes
    /\ now > alerted_processes[HotKey]
    /\ now < alerted_processes[HotKey] + cooldown_period

\* the time of the last admission of key, -1 when there was none
LastAdmission(key) ==
    IF Admissions(key) = {} THEN -1
    ELSE gate_calls[CHOOSE i \in Admissions(key) : \A j \in Admissions(key) : j <= i].time

\* C2: a pass of check_memory_alerts leaves the timestamp of every key that is
\* inside its cooldown window unchanged (a suppressed call writes nothing), so
\* the window runs from the last admitted alert: a breach met at or after
\* last admission + cooldown_period is admitted, however many breaches were
\* suppressed in between.
C2_SuppressedKeepsClock ==
    [][(pc = "mem" /\ pc' = "cpu") =>
         /\ \A k \in DOMAIN alerted_processes :
               now - alerted_processes[k] < cooldown_period
               => (k \in DOMAIN alerted_processes'
                   /\ alerted_processes'[k] = alerted_processes[k])
         /\ (processes # <<>> /\ LastAdmission(HotKey) >= 0
                              /\ now - LastAdmission(HotKey) >= cooldown_period)
            => (alerts' # <<>> /\ alerted_processes'[HotKey] = now)]_vars

\* a breach is admitted exactly cooldown_period after the last admission, with
\* a suppressed breach in between
C2_Witness ==
    /\ pc = "cpu"
    /\ cooldown_period > 1
    /\ alerts # <<>>
    /\ \E i, j, k \in 1..Len(gate_calls) :
          /\ i < j /\ j < k
          /\ gate_calls[i].key = HotKey /\ gate_calls[i].ok
          /\ gate_calls[j].key = HotKey /\ ~gate_calls[j].ok
          /\ gate_calls[k].key = HotKey /\ gate_calls[k].ok
          /\ gate_calls[k].time = now
          /\ gate_calls[k].time - gate_calls[i].time = cooldown_period

\* the displays still inside their display duration
Showing == {i \in DOMAIN displayed : displayed[i].left > 0}

\* the toasts of the queued path, in the order of their show_toast calls
QueueShown == SelectSeq(displayed, LAMBDA d : d.toast.path = "queue")

\* C3: on every dispatch path, no display is initiated while a display
\* initiated before is still inside its display duration: at most one display
\* is inside its duration at any time.
C3_DisplaysSerialized == Cardinality(Showing) <= 1

\* the threads past the check of line 38 and not yet done with the slot
InSlot == {t \in Threads : thread[t].pc \in {"set_flag", "pop", "show"}}

\* C4: the main thread and the Timer threads exclude each other on the queue
\* and the flag: no two executions of process_notification_queue are past the
\* check of line 38 at once, and none pops from an empty queue.
C4_MutualExclusion ==
    /\ Cardinality(InSlot) <= 1
    /\ \A t \in Threads : thread[t].pc # "raised"

\* request k of show_notification is in the queue
Queued(k) == \E i \in DOMAIN notification_queue : notification_queue[i].title = k

\* request k was handed to show_toast
Shown(k) == \E i \in DOMAIN displayed :
               displayed[i].toast.path = "queue" /\ displayed[i].toast.title = k

\* C5: under fair scheduling, every request show_notification appended to the
\* queue is eventually popped and handed to the display.
C5_EventualDrain == \A k \in 1..MaxRequests : Queued(k) ~> Shown(k)

\* C6: queued requests are displayed in arrival order, each after the display
\* duration of the one before it has elapsed.
C6_Fifo ==
    \A i, j \in DOMAIN QueueShown :
        i < j => /\ QueueShown[i].toast.title < QueueShown[j].toast.title
                 /\ QueueShown[i].left = 0

\* the consolidated calls made on a list that is not empty
ConsolidatedCalls == SelectSeq(dispatched, LAMBDA c : c.alerts # <<>>)

\* the entries a consolidated body lists, in the order it lists them
Entries(message) == SelectSeq(message, LAMBDA l : l.kind = "entry")

\* the "and N more" lines of a consolidated body
Markers(message) == SelectSeq(message, LAMBDA l : l.kind = "more")

Least(a, b) == IF a < b THEN a ELSE b

\* the metric value of an alert record and of a listed entry, as fractions
RecordValue(r, path) ==
    IF path = "memory" THEN Frac(r.memory_usage_percent, 1) ELSE r.cpu_usage_percent

EntryValue(e, path) == IF path = "memory" THEN Frac(e.value, 1) ELSE e.value

\* C7: for a list of N >= 2 records of one family, the body lists the
\* min(N, 3) records with the largest metric values, largest first: the
\* entries are in descending order of value and no record left out has a
\* larger value than a listed one.
C7_TopByValue ==
    \A j \in DOMAIN ConsolidatedCalls \cap DOMAIN displayed :
        LET list == ConsolidatedCalls[j].alerts
            path == displayed[j].toast.path
            shown == Entries(displayed[j].toast.message)
        IN  Len(list) >= 2 =>
              /\ Len(shown) = Least(Len(list), 3)
              /\ \A a, b \in DOMAIN shown :
                    a < b => ~FracGtFrac(EntryValue(shown[b], path),
                                         EntryValue(shown[a], path))
              /\ \A i \in DOMAIN list :
                    (\A a \in DOMAIN shown : shown[a].name # list[i].process_name)
                    => \A a \in DOMAIN shown :
                          ~FracGtFrac(RecordValue(list[i], path),
                                      EntryValue(shown[a], path))

\* C8: a consolidated call on an empty list shows nothing and a call on N >= 1
\* records shows exactly one toast; for N >= 2 its title states N, its body
\* lists exactly min(N, 3) entries, and it ends with the marker of N - 3 more
\* if and only if N > 3.
C8_ConsolidationCount ==
    /\ Len(displayed) = Len(ConsolidatedCalls)
    /\ \A j \in DOMAIN ConsolidatedCalls \cap DOMAIN displayed :
          LET N == Len(ConsolidatedCalls[j].alerts)
              toast == displayed[j].toast
              more == Markers(toast.message)
          IN  N >= 2 =>
                /\ toast.title[1] = N
                /\ Len(Entries(toast.message)) = Least(N, 3)
                /\ (more # <<>>) <=> (N > 3)
                /\ \A i \in DOMAIN more :
                      /\ more[i].count = N - 3
                      /\ i = 1
                      /\ toast.message[Len(toast.message)] = more[i]

\* a list of more than three records was shown, and an empty one was passed
C8_Witness ==
    /\ \E j \in DOMAIN ConsolidatedCalls \cap DOMAIN displayed :
          /\ Len(ConsolidatedCalls[j].alerts) > 3
          /\ Markers(displayed[j].toast.message) # <<>>
    /\ \E i \in DOMAIN dispatched : dispatched[i].alerts = <<>>

\* the records of the alert history that are of no process
SystemRecords == {i \in DOMAIN alerts_log : alerts_log[i].pid \notin Pids}

\* C9: once a cycle is folded into the history, the history holds exactly one
\* system-level record for every cycle whose aggregate memory reading was above
\* 85 with "system_memory" outside its cooldown.
C9_SystemRecord ==
    pc = "sleep" => Cardinality(SystemRecords) = Cardinality(Admissions(SystemMemoryKey))

\* the key of every subject
KeyTable == [x \in Subjects |-> KeyOf(x)]

\* the keys of two subjects are equal exactly when metric, pid and name are
KeysInjective == \A x, y \in Subjects : (KeyTable[x] = KeyTable[y]) <=> (x = y)

\* C10: the keys of two subjects are equal exactly when metric, pid and name
\* are, and a call of should_alert for one subject leaves the outcome of a call
\* for every other subject as it was.
C10_KeysInjective ==
    [][/\ KeysInjective
       /\ \A x \in Subjects :
             (/\ now' = now
              /\ alerted_processes' = should_alert(alerted_processes, KeyTable[x], now).map)
             => \A y \in Subjects \ {x} :
                   should_alert(alerted_processes', KeyTable[y], now).ok
                   = should_alert(alerted_processes, KeyTable[y], now).ok]_vars

\* both metrics of one process were admitted, at different times, next to
\* each other in the cooldown map
C10_Witness ==
    \E x, y \in Subjects :
        /\ x.metric = "memory" /\ y.metric = "cpu"
        /\ x.pid = y.pid /\ x.name = y.name
        /\ KeyTable[x] \in DOMAIN alerted_processes
        /\ KeyTable[y] \in DOMAIN alerted_processes
        /\ alerted_processes[KeyTable[x]] # alerted_processes[KeyTable[y]]

\* C11: a failed read of the aggregate memory figure costs the cycle only: it
\* never takes run_monitor out of its loop, so no run is ended by the error
\* before its report.
C11_ReadFailureSkipsCycle == pc # "crashed"

\* the raw CPU readings normalize_cpu_usage is asked about
RawValues == {None, Some(0), Some(2), Some(3)}

\* C15: normalize_cpu_usage never raises; with a core count that is zero,
\* negative or unavailable it returns 0 for every raw value, and with a core
\* count n > 0 it returns raw / n.
C15_NormalizeTotal ==
    \A raw \in RawValues :
        /\ ~normalize_raises(raw)
        /\ (cpu_count = None \/ cpu_count[1] <= 0) => normalize_cpu_usage(raw) = Frac(0, 1)
        /\ (cpu_count # None /\ cpu_count[1] > 0 /\ raw # None)
           => normalize_cpu_usage(raw) = Frac(raw[1], cpu_count[1])

\* the Timer of request k was started although no toast of k was displayed:
\* the display of k failed
Failed(k) == thread[k].pc # "none" /\ ~Shown(k)

\* C12: after a display failure the slot is released by the completion
\* callback of the failed request, and every request that is in the queue is
\* eventually handed to the display.
C12_DisplayFailureCaught ==
    /\ \A k \in 1..MaxRequests :
          (Failed(k) /\ thread[k].pc = "timer") ~> (thread[k].pc \notin {"timer", "completed"})
    /\ \A j \in 1..MaxRequests :
          ((\E k \in 1..MaxRequests : Failed(k)) /\ Queued(j)) ~> (Shown(j) \/ Failed(j))

\* the dispatcher calls that dispatch a notification: every show_notification,
\* and a consolidated call on a list that is not empty
Dispatching ==
    {i \in DOMAIN dispatched :
        dispatched[i].op = "show_notification" \/ dispatched[i].alerts # <<>>}

\* the cues played by dispatcher call i
CuesOf(i) == {j \in DOMAIN beeps : beeps[j].call = i}

\* C17: every call that dispatches a notification has played exactly one cue,
\* a call on an empty batch none, and no toast is displayed whose call has
\* not played its cue.
C17_OneCuePerNotification ==
    /\ \A i \in DOMAIN dispatched :
          Cardinality(CuesOf(i)) = IF i \in Dispatching THEN 1 ELSE 0
    /\ \A j \in DOMAIN beeps : beeps[j].call \in DOMAIN dispatched
    /\ \A d \in DOMAIN displayed :
          displayed[d].toast.path = "queue" => CuesOf(displayed[d].toast.title) # {}
    /\ Cardinality({d \in DOMAIN displayed : displayed[d].toast.path # "queue"})
       = Cardinality({i \in Dispatching : dispatched[i].op # "show_notification"})

\* a queued toast and a consolidated toast were displayed after their cues, and
\* a call on an empty batch went by
C17_Witness ==
    /\ \E d \in DOMAIN displayed : displayed[d].toast.path = "queue"
    /\ \E d \in DOMAIN displayed : displayed[d].toast.path = "cpu"
    /\ \E i \in DOMAIN dispatched : i \notin Dispatching
    /\ Len(beeps) = 2

\* the requests of the 'Monitoring stopped' notification (line 309)
StopRequests ==
    {i \in DOMAIN dispatched :
        dispatched[i].op = "show_notification" /\ dispatched[i].title = "Process Monitor"}

\* C13: a KeyboardInterrupt is handled at every position of the loop, the
\* sleep included; handling it requests the 'Monitoring stopped' notification
\* once and leaves the loop at once, with the clock, the gate and the logs as
\* they were; the only step after it is the one generation of the report.
C13_Cancellation ==
    /\ [](pc \in InTry => ENABLED Interrupt)
    /\ [][/\ (StopRequests = {} /\ StopRequests' # {})
             => /\ pc \in InTry /\ pc' = "report"
                /\ Cardinality(StopRequests') = 1
                /\ saved' = None
                /\ UNCHANGED <<now, gate_calls, alerted_processes, alerts_log, cpu_alerts_log>>
          /\ StopRequests # {}
             => /\ pc = "report" /\ pc' = "done"
                /\ saved = None /\ saved' # None
                /\ UNCHANGED <<now, gate_calls, alerted_processes, alerts_log,
                               cpu_alerts_log, dispatched>>]_vars

\* a run cancelled during its sleep, before its duration was over, has
\* written its report
C13_Witness ==
    /\ pc = "done" /\ StopRequests # {} /\ saved # None
    /\ now - start_time < duration
    /\ alerts_log # <<>>

\* C14: with no cancellation and no error run_monitor terminates; a cycle
\* starts only while the time since start is below the duration; the report
\* is generated once, and no 'Monitoring stopped' notification is requested.
C14_DurationBound ==
    /\ <>(pc = "done")
    /\ [][(pc = "while" /\ pc' = "mem") => now - start_time < duration]_vars
    /\ [][saved # None => saved' = saved]_vars
    /\ [](pc = "done" => saved # None /\ StopRequests = {})

\* a run of two cycles or more ended by its duration, with its report written
C14_Witness ==
    /\ pc = "done" /\ saved # None
    /\ duration > 0 /\ now - start_time >= duration
    /\ Len(gate_calls) >= 2

\* the CPU alert records emitted so far: the log and the running cycle's list
CpuRecords == cpu_alerts_log \o cpu_alerts

\* C16: no CPU alert record, no CPU key of the cooldown map and no entry of a
\* CPU notification is of a process named like the idle process, in any
\* spelling.
C16_IdleNeverAlerted ==
    /\ \A i \in DOMAIN CpuRecords : CpuRecords[i].process_name \notin IdleNames
    /\ \A p \in Pids, n \in IdleNames : CpuKey(p, n) \notin DOMAIN alerted_processes
    /\ \A i \in DOMAIN dispatched :
          dispatched[i].op = "show_consolidated_cpu_notification"
          => \A a \in DOMAIN dispatched[i].alerts :
                dispatched[i].alerts[a].process_name \notin IdleNames

\* a CPU pass has gone over the idle process, spelled with capitals and
\* reading above the threshold, and has alerted the process next to it
C16_Witness ==
    /\ pc = "extend"
    /\ cpu_count = Some(1)
    /\ \E i \in DOMAIN processes :
          /\ processes[i].name \in IdleNames \ {IdleName}
          /\ processes[i].cpu_percent = Some(3)
    /\ cpu_alerts # <<>>

\* the admitted calls of should_alert on the key of call i, before call i
AdmittedBefore(i) ==
    {j \in 1..(i - 1) : gate_calls[j].key = gate_calls[i].key /\ gate_calls[j].ok}

\* the latest of a set of calls that is not empty
Latest(S) == CHOOSE i \in S : \A j \in S : j <= i

\* C18: a call of should_alert admits exactly when its key was never admitted
\* or the time since its last admission is at least cooldown_period; the
\* cooldown map holds exactly the admitted keys, each with the time of its
\* last admission, so an admission stamps its own key with now and no other.
C18_GateExact ==
    /\ \A i \in DOMAIN gate_calls :
          gate_calls[i].ok
          <=> \/ AdmittedBefore(i) = {}
              \/ gate_calls[i].time - gate_calls[Latest(AdmittedBefore(i))].time
                 >= cooldown_period
    /\ DOMAIN alerted_processes = {gate_calls[i].key : i \in {j \in DOMAIN gate_calls : gate_calls[j].ok}}
    /\ \A key \in DOMAIN alerted_processes :
          alerted_processes[key] = gate_calls[Latest(Admissions(key))].time

\* the process is alerted again exactly cooldown_period after its last alert,
\* while the key of the aggregate memory keeps its own, other timestamp
C18_Witness ==
    /\ cooldown_period > 0
    /\ \E i \in DOMAIN gate_calls :
          /\ gate_calls[i].key = HotKey /\ gate_calls[i].ok
          /\ AdmittedBefore(i) # {}
          /\ gate_calls[i].time - gate_calls[Latest(AdmittedBefore(i))].time = cooldown_period
    /\ SystemMemoryKey \in DOMAIN alerted_processes
    /\ alerted_processes[SystemMemoryKey] # alerted_processes[HotKey]

\* process p of the snapshot breaches the memory threshold, an absent reading
\* counted as 0
MemoryBreach(p) == OrZero(p.memory_percent) > alert_threshold

\* the cooldown map as the pass finds it admits the memory key of p
MemoryAdmit(p) ==
    LET key == MemKey(p.pid, p.name)
    IN  \/ key \notin DOMAIN alerted_processes
        \/ now - alerted_processes[key] >= cooldown_period

\* the processes check_memory_alerts is to return a record for, in snapshot order
MemoryExpected == SelectSeq(processes, LAMBDA p : MemoryBreach(p) /\ MemoryAdmit(p))

\* C19: check_memory_alerts returns, in snapshot order, a record for exactly
\* the processes whose memory reading (absent read as 0) is above the
\* threshold and whose key the gate admits; no record of either pass is of a
\* process whose reading of that metric is absent.
C19_MemoryAlertIff ==
    [][/\ (pc = "mem" /\ pc' = "cpu")
          => /\ Len(alerts') = Len(MemoryExpected)
             /\ \A i \in DOMAIN alerts' :
                   /\ alerts'[i].pid = MemoryExpected[i].pid
                   /\ alerts'[i].process_name = MemoryExpected[i].name
                   /\ alerts'[i].memory_usage_percent = OrZero(MemoryExpected[i].memory_percent)
                   /\ MemoryExpected[i].memory_percent # None
       /\ (pc = "cpu" /\ pc' = "extend")
          => \A i \in DOMAIN cpu_alerts' :
                \E k \in DOMAIN processes :
                   /\ processes[k].pid = cpu_alerts'[i].pid
                   /\ processes[k].cpu_percent # None]_vars

\* a pass returned a record for the second process of the snapshot only: the
\* first has no memory reading or sits at the threshold
C19_Witness ==
    /\ pc = "cpu"
    /\ Len(processes) = 2
    /\ Len(alerts) = 1
    /\ alerts[1].pid = processes[2].pid
    /\ ~ (\E i \in DOMAIN alerts_log : alerts_log[i].pid = processes[1].pid)

\* the admitted calls of should_alert on the key of a process
ProcessAdmissions ==
    {i \in DOMAIN gate_calls : gate_calls[i].ok /\ gate_calls[i].key # SystemMemoryKey}

\* C20: when the report has been generated, the two logs together hold one
\* record for every admission of a process-level key during the run.
C20_AdmissionsLogged ==
    pc = "done" => Cardinality(ProcessAdmissions) = Len(alerts_log) + Len(cpu_alerts_log)

====
